---- MODULE Spec2Model ----
(***************************************************************************)
(* Model of server.js: an express application that keeps "materials" in a  *)
(* SQLite table and their attachments (a pdf, an optional image) on disk.  *)
(*                                                                         *)
(* Node runs one callback at a time, so every action below is one callback *)
(* of the program (together with the I/O whose completion triggers it);    *)
(* callbacks of different requests interleave freely.                      *)
(*                                                                         *)
(* The attachment store is the set of paths that exist on disk: no handler *)
(* reads or compares file bytes, only paths.                               *)
(***************************************************************************)
EXTENDS Integers, Sequences, FiniteSets, TLC

\* ------------------------------------------------------------------ bounds
\* number of HTTP requests the clients send in one run
MaxOps == 3
\* requests that can be in flight at the same time
Conns == {1, 2}

\* ------------------------------------------------------------ input values
\* a body field that is absent from the request (JavaScript undefined)
Undef == "undefined"
Body(name, desc, category) == [name |-> name, desc |-> desc, category |-> category]

\* req.body: two bodies with every field, and one body for each field that is
\* missing or empty
Bodies ==
  {Body("a", "d", "c"), Body("b", "d", "c"),
   Body("", "d", "c"), Body("a", Undef, "c"), Body("a", "d", "")}

\* req.body of the PUT requests
UpdateBodies == {Body("a", "d", "c"), Body("b", "d", "c"), Body("a", "d", "")}

\* a file part of a multipart request (file.originalname as a sequence of
\* characters, file.mimetype), or no such part
NoPart == [orig |-> <<>>, mime |-> "none"]
PdfParts ==
  {NoPart, [orig |-> <<"n", " ">>, mime |-> "application/pdf"],
           [orig |-> <<"n", " ">>, mime |-> "text/plain"]}
ImageParts ==
  {NoPart, [orig |-> <<"i">>, mime |-> "image/png"],
           [orig |-> <<"i">>, mime |-> "text/plain"]}

\* ------------------------------------------------------------------ paths
\* SQL NULL / JavaScript null for a path
NoPath == [dir |-> "null", ts |-> 0, name |-> <<>>]
NoLink == [part |-> "null", base |-> <<>>]

\* originalname.replace(/\s/g, '_')
Sanitize(orig) == [i \in 1 .. Len(orig) |-> IF orig[i] = " " THEN "_" ELSE orig[i]]

\* destination: images go to uploads/images, everything else to uploads/pdfs
Destination(fieldname) == IF fieldname = "image" THEN "images" ELSE "pdfs"

\* the file named by its sanitized original name alone
StoredPathWithoutClock(fieldname, orig, t) ==
  [dir |-> Destination(fieldname), ts |-> 0, name |-> Sanitize(orig)]

\* filename: `${Date.now()}-${sanitized originalname}`, joined to the destination
StoredPath(fieldname, orig, t) ==
  [dir |-> Destination(fieldname), ts |-> t, name |-> Sanitize(orig)]

\* path.basename(p): the file name without its directory
Basename(p) == <<p.ts, p.name>>

\* `${protocol}://${host}/uploads/pdfs/${path.basename(pdf_path)}`
PdfLink(p) == [part |-> "pdfs", base |-> Basename(p)]

\* image_path ? `.../uploads/images/${path.basename(image_path)}` : null
ImageLink(p) == IF p = NoPath THEN NoLink ELSE [part |-> "images", base |-> Basename(p)]

\* fileFilter: TRUE when the part is accepted
FileFilter(fieldname, part) ==
  /\ ~(fieldname = "pdf" /\ part.mime # "application/pdf")
  /\ ~(fieldname = "image" /\ part.mime \notin {"image/jpeg", "image/png", "image/jpg"})

\* JavaScript truthiness of a body field: !x is true for undefined and for ''
Truthy(x) == x # Undef /\ x # ""

\* the check with the category forgotten
FieldsPresentWithoutCategory(name, desc, category) == Truthy(name) /\ Truthy(desc)

\* the check of lines 95 and 195
FieldsPresent(name, desc, category) == Truthy(name) /\ Truthy(desc) /\ Truthy(category)

\* ------------------------------------------------------------------ state
VARIABLES
  rows,      \* the materials table: id -> row
  lastSeq,   \* sqlite_sequence of the AUTOINCREMENT primary key
  files,     \* paths that exist under uploads/
  now,       \* Date.now() at the latest upload, 0 before the first
  conn,      \* per connection: the request in flight and its locals
  reply,     \* the response the last step sent, NoReply when it sent none
  refused,   \* the request the last step refused as soon as it was uploaded, if any
  failed,    \* whether the database call of the last step failed
  up,        \* FALSE once the process died of an uncaught exception
  started,   \* requests sent so far
  created,   \* ids returned by 201 responses, in order
  deleted    \* ids whose DELETE answered 200

vars == <<rows, lastSeq, files, now, conn, reply, refused, failed, up, started, created, deleted>>

NoReply == [op |-> "none", status |-> 0, error |-> "", id |-> 0, name |-> Undef,
            desc |-> Undef, category |-> Undef, pdf_link |-> NoLink, image_link |-> NoLink,
            list |-> {}]

NoRow == [name |-> Undef, desc |-> Undef, category |-> Undef,
          pdf_path |-> NoPath, image_path |-> NoPath]

\* the locals of a request: req.params.id, req.body, req.files and the row its lookup read
Idle == [pc |-> "idle", op |-> "none", multipart |-> FALSE, id |-> 0,
         name |-> Undef, desc |-> Undef, category |-> Undef,
         pdfFile |-> NoPath, imageFile |-> NoPath, existing |-> NoRow]

\* what is recorded of a refused request: its route, whether it was multipart and
\* whether it carried a pdf part and an image part
NoRequest == [op |-> "none", multipart |-> FALSE, pdf |-> FALSE, image |-> FALSE]

\* res.status(s).json({error: e}); the error is named by the first word of its message
ErrorReply(op, s, e) == [NoReply EXCEPT !.op = op, !.status = s, !.error = e]

\* a missing row answered as a success
NotFoundReplyAsOk(op, id) == [NoReply EXCEPT !.op = op, !.status = 200, !.id = id]

\* lines 167 and 203: res.status(404).json({error: 'Material not found.'})
NotFoundReply(op, id) == [ErrorReply(op, 404, "Material") EXCEPT !.id = id]

\* res.json({message: ...})
OkReply(op, id) == [NoReply EXCEPT !.op = op, !.status = 200, !.id = id]

\* res.status(s).json({message, material: {id, name, desc, category, pdf_link, image_link}})
MaterialReply(op, s, id, name, desc, category, pdf, image) ==
  [NoReply EXCEPT !.op = op, !.status = s, !.id = id, !.name = name, !.desc = desc,
                  !.category = category, !.pdf_link = PdfLink(pdf),
                  !.image_link = ImageLink(image)]

\* the request of connection c is answered with r: the connection is free again
Respond(c, r) ==
  /\ conn' = [conn EXCEPT ![c] = Idle]
  /\ reply' = r
  /\ refused' = NoRequest

\* the same for a request q answered by the callback of its upload
Refuse(c, q, r) ==
  /\ conn' = [conn EXCEPT ![c] = Idle]
  /\ reply' = r
  /\ refused' = q

\* the request of connection c goes on as q, nothing is sent
Continue(c, q) ==
  /\ conn' = [conn EXCEPT ![c] = q]
  /\ reply' = NoReply
  /\ refused' = NoRequest

\* a new request takes the first free connection
CanStart(c) ==
  /\ up
  /\ started < MaxOps
  /\ conn[c].pc = "idle"
  /\ \A d \in Conns : d < c => conn[d].pc # "idle"

Init ==
  /\ rows = << >>
  /\ lastSeq = 0
  /\ files = {}
  /\ now = 0
  /\ conn = [c \in Conns |-> Idle]
  /\ reply = NoReply
  /\ refused = NoRequest
  /\ failed = FALSE
  /\ up = TRUE
  /\ started = 0
  /\ created = << >>
  /\ deleted = {}

\* ------------------------------------------------------------------ clock
\* Date.now() is read only to name an uploaded file, and the names it yields are only
\* compared for equality: a request with file parts is uploaded in the millisecond of
\* the upload before it or in a later one
Clock(t, parts) ==
  /\ t \in {now, now + 1}
  /\ parts = << >> => t = now
  /\ parts # << >> => t >= 1

\* the :id parameter of PUT and DELETE: the ids used so far and one never used
IdParams == 1 .. (lastSeq + 1)

\* ------------------------------------------------------------------ multer
\* the file parts of a request in the order they arrive, as <<fieldname, part>>
Parts(pdf, image, pdfFirst) ==
  LET p == IF pdf = NoPart THEN << >> ELSE << <<"pdf", pdf>> >>
      i == IF image = NoPart THEN << >> ELSE << <<"image", image>> >>
  IN  IF pdfFirst THEN p \o i ELSE i \o p

\* index of the first part the file filter rejects, 0 when it accepts them all
FirstRejected(parts) ==
  IF \E k \in 1 .. Len(parts) : ~FileFilter(parts[k][1], parts[k][2])
  THEN CHOOSE k \in 1 .. Len(parts) :
         /\ ~FileFilter(parts[k][1], parts[k][2])
         /\ \A j \in 1 .. (k - 1) : FileFilter(parts[j][1], parts[j][2])
  ELSE 0

\* the paths diskStorage gives to the first n parts
PartPaths(parts, n, t) == {StoredPath(parts[k][1], parts[k][2].orig, t) : k \in 1 .. n}

\* the store after upload(req, res, cb) handled the parts: multer stores every part the
\* filter accepts; the first part it rejects aborts the upload, and multer then removes
\* the files it stored for this request
Uploaded(fs, parts, t) ==
  IF FirstRejected(parts) # 0
  THEN fs \ PartPaths(parts, FirstRejected(parts) - 1, t)
  ELSE fs \cup PartPaths(parts, Len(parts), t)

\* req.files[fieldname][0].path after a successful upload, NoPath without that part
UploadedPath(fieldname, part, t) ==
  IF part = NoPart THEN NoPath ELSE StoredPath(fieldname, part.orig, t)

\* the file parts of the requests the clients send: only a multipart request carries
\* file parts (any other request has a JSON body, and multer leaves its req.files
\* undefined); the order of the parts matters only when there are two
Attachments ==
  {a \in [multipart : BOOLEAN, pdf : PdfParts, image : ImageParts, pdfFirst : BOOLEAN] :
     /\ a.multipart \/ (a.pdf = NoPart /\ a.image = NoPart)
     /\ a.pdfFirst \/ (a.pdf # NoPart /\ a.image # NoPart)}

\* the request as the clients sent it
Sent(op, a) ==
  [op |-> op, multipart |-> a.multipart, pdf |-> a.pdf # NoPart, image |-> a.image # NoPart]

\* the request as the later callbacks see it
Request(op, id, multipart, name, desc, category, pdf, image, t) ==
  [Idle EXCEPT !.op = op, !.id = id, !.multipart = multipart,
               !.name = name, !.desc = desc, !.category = category,
               !.pdfFile = UploadedPath("pdf", pdf, t),
               !.imageFile = UploadedPath("image", image, t)]

\* ------------------------------------------------------- POST /api/materials
\* lines 94-104, what the callback of upload answers at once: 0 when it goes on to
\* the duplicate check.  req.files is undefined in a request that is not multipart,
\* req.files['pdf'] throws there and express answers 500.
CreateValidation(multipart, name, desc, category, pdf) ==
  IF ~FieldsPresent(name, desc, category) THEN ErrorReply("create", 400, "Name")
  ELSE IF ~multipart THEN ErrorReply("create", 500, "TypeError")
  ELSE IF pdf = NoPart THEN ErrorReply("create", 400, "PDF")
  ELSE NoReply

\* lines 87-110: the upload and its callback, up to the call of checkDuplicateMaterial
CreateUpload(c) ==
  /\ CanStart(c)
  /\ \E b \in Bodies, a \in Attachments, t \in {now, now + 1} :
    LET parts == Parts(a.pdf, a.image, a.pdfFirst)
        v == CreateValidation(a.multipart, b.name, b.desc, b.category, a.pdf)
    IN  /\ Clock(t, parts)
        /\ now' = t
        /\ started' = started + 1
        /\ files' = Uploaded(files, parts, t)
        /\ failed' = FALSE
        /\ IF FirstRejected(parts) # 0
           THEN Refuse(c, Sent("create", a), ErrorReply("create", 400, "Upload"))
           ELSE IF v # NoReply THEN Refuse(c, Sent("create", a), v)
           ELSE Continue(c, [Request("create", 0, a.multipart, b.name, b.desc, b.category,
                                     a.pdf, a.image, t) EXCEPT !.pc = "check"])
        /\ UNCHANGED <<rows, lastSeq, up, created, deleted>>

\* the image condition with a null argument matching every stored image
ImageMatchesAnyForNull(stored, image_path) ==
  image_path = NoPath \/ stored = NoPath \/ stored = image_path

\* SELECT * FROM materials WHERE name = ? AND desc = ? AND category = ? AND pdf_path = ?
\*   AND (image_path = ? OR image_path IS NULL): a comparison with NULL is never true
ImageMatches(stored, image_path) ==
  (stored # NoPath /\ image_path # NoPath /\ stored = image_path) \/ stored = NoPath

checkDuplicateMaterial(name, desc, category, pdf_path, image_path) ==
  \E i \in DOMAIN rows :
    /\ rows[i].name = name
    /\ rows[i].desc = desc
    /\ rows[i].category = category
    /\ rows[i].pdf_path = pdf_path
    /\ ImageMatches(rows[i].image_path, image_path)

\* lines 110-121: the duplicate check and its callback
CreateCheck(c) ==
  LET r == conn[c] IN
  /\ up /\ r.pc = "check"
  /\ \E dbErr \in BOOLEAN :
       /\ failed' = dbErr
       /\ IF dbErr
          THEN Respond(c, ErrorReply("create", 500, "Database"))
          ELSE IF checkDuplicateMaterial(r.name, r.desc, r.category, r.pdfFile, r.imageFile)
          THEN Respond(c, ErrorReply("create", 409, "Material"))
          ELSE Continue(c, [r EXCEPT !.pc = "insert"])
  /\ UNCHANGED <<rows, lastSeq, files, now, up, started, created, deleted>>

\* the id of a plain INTEGER PRIMARY KEY: one more than the largest id in the table
NextIdWithoutAutoincrement ==
  IF DOMAIN rows = {} THEN 1
  ELSE (CHOOSE m \in DOMAIN rows : \A i \in DOMAIN rows : i <= m) + 1

\* id INTEGER PRIMARY KEY AUTOINCREMENT: one more than the largest id ever used
NextId == lastSeq + 1

Row(name, desc, category, pdf_path, image_path) ==
  [name |-> name, desc |-> desc, category |-> category,
   pdf_path |-> pdf_path, image_path |-> image_path]

\* the table under a UNIQUE constraint on the whole row: an equal row is not stored twice
PutUnlessStored(t, i, v) ==
  IF \E j \in DOMAIN t : t[j] = v THEN t ELSE [j \in DOMAIN t \cup {i} |-> IF j = i THEN v ELSE t[j]]

\* the table with row i set to v (added when absent)
Put(t, i, v) == [j \in DOMAIN t \cup {i} |-> IF j = i THEN v ELSE t[j]]

\* the table without the rows up to i (WHERE id <= ?)
DropUpTo(t, i) == [j \in {k \in DOMAIN t : k > i} |-> t[j]]

\* the table without row i
Drop(t, i) == [j \in DOMAIN t \ {i} |-> t[j]]

\* lines 121-139: INSERT and its callback
CreateInsert(c) ==
  LET r == conn[c] IN
  /\ up /\ r.pc = "insert"
  /\ \E dbErr \in BOOLEAN :
       /\ failed' = dbErr
       /\ IF dbErr
          THEN /\ Respond(c, ErrorReply("create", 500, "Database"))
               /\ UNCHANGED <<rows, lastSeq, created>>
          ELSE /\ rows' = Put(rows, NextId, Row(r.name, r.desc, r.category, r.pdfFile, r.imageFile))
               /\ lastSeq' = NextId
               /\ created' = Append(created, NextId)
               /\ Respond(c, MaterialReply("create", 201, NextId, r.name, r.desc, r.category,
                                           r.pdfFile, r.imageFile))
  /\ UNCHANGED <<files, now, up, started, deleted>>

\* -------------------------------------------------------- GET /api/materials
\* {...row, pdf_link, image_link}
Listed(i) ==
  [id |-> i, name |-> rows[i].name, desc |-> rows[i].desc, category |-> rows[i].category,
   pdf_path |-> rows[i].pdf_path, image_path |-> rows[i].image_path,
   pdf_link |-> PdfLink(rows[i].pdf_path), image_link |-> ImageLink(rows[i].image_path)]

List(c) ==
  /\ CanStart(c)
  /\ started' = started + 1
  /\ \E dbErr \in BOOLEAN :
       /\ failed' = dbErr
       /\ IF dbErr
          THEN Respond(c, ErrorReply("list", 500, "Database"))
          ELSE Respond(c, [NoReply EXCEPT !.op = "list", !.status = 200,
                                          !.list = {Listed(i) : i \in DOMAIN rows}])
  /\ UNCHANGED <<rows, lastSeq, files, now, up, created, deleted>>

\* ------------------------------------------------ DELETE /api/materials/:id
\* if (p && fs.existsSync(p)) fs.unlinkSync(p), for each of the paths
Unlink(fs, paths) == fs \ (paths \ {NoPath})

\* the files of a row with the image forgotten
DeletedFilesWithoutImage(row) == {row.pdf_path}

\* lines 171-172: the files Delete removes
DeletedFiles(row) == {row.pdf_path, row.image_path}

\* the lookup failing also when a file of the row is missing from the store
LookupFailsWhenFileMissing(dbErr, id) ==
  \/ dbErr
  \/ id \notin DOMAIN rows
  \/ (id \in DOMAIN rows /\ ~(({rows[id].pdf_path, rows[id].image_path} \ {NoPath}) \subseteq files))

\* line 165: err || !row
LookupFails(dbErr, id) == dbErr \/ id \notin DOMAIN rows

\* lines 161-174: the lookup and its callback, which removes the files
DeleteLookup(c) ==
  /\ CanStart(c)
  /\ started' = started + 1
  /\ \E id \in IdParams, dbErr \in BOOLEAN :
       /\ failed' = dbErr
       /\ IF LookupFails(dbErr, id)
          THEN /\ Respond(c, NotFoundReply("delete", id))
               /\ UNCHANGED files
          ELSE /\ files' = Unlink(files, DeletedFiles(rows[id]))
               /\ Continue(c, [Idle EXCEPT !.pc = "delete", !.op = "delete", !.id = id,
                                           !.existing = rows[id]])
  /\ UNCHANGED <<rows, lastSeq, now, up, created, deleted>>

\* lines 174-181: DELETE FROM materials WHERE id = ? and its callback
DeleteRow(c) ==
  LET r == conn[c] IN
  /\ up /\ r.pc = "delete"
  /\ \E dbErr \in BOOLEAN :
       /\ failed' = dbErr
       /\ IF dbErr
          THEN /\ Respond(c, [ErrorReply("delete", 500, "Database") EXCEPT !.id = r.id])
               /\ UNCHANGED <<rows, deleted>>
          ELSE /\ rows' = Drop(rows, r.id)
               /\ deleted' = deleted \cup {r.id}
               /\ Respond(c, OkReply("delete", r.id))
  /\ UNCHANGED <<lastSeq, files, now, up, started, created>>

\* --------------------------------------------------- PUT /api/materials/:id
\* lines 185-200: the upload and its callback, up to the lookup of the row
UpdateUpload(c) ==
  /\ CanStart(c)
  /\ \E id \in IdParams, b \in UpdateBodies, a \in Attachments, t \in {now, now + 1} :
    LET parts == Parts(a.pdf, a.image, a.pdfFirst)
    IN  /\ Clock(t, parts)
        /\ now' = t
        /\ started' = started + 1
        /\ files' = Uploaded(files, parts, t)
        /\ failed' = FALSE
        /\ IF FirstRejected(parts) # 0
           THEN Refuse(c, Sent("update", a),
                       [ErrorReply("update", 400, "Upload") EXCEPT !.id = id])
           ELSE IF ~FieldsPresent(b.name, b.desc, b.category)
           THEN Refuse(c, Sent("update", a),
                       [ErrorReply("update", 400, "Name") EXCEPT !.id = id])
           ELSE Continue(c, [Request("update", id, a.multipart, b.name, b.desc, b.category,
                                     a.pdf, a.image, t) EXCEPT !.pc = "lookup"])
        /\ UNCHANGED <<rows, lastSeq, up, created, deleted>>

\* the document path with the assignment of line 218 forgotten
NewPdfPathKeepsOld(existing, pdfFile) == existing.pdf_path

\* lines 209-219: the document path the row gets
NewPdfPath(existing, pdfFile) == IF pdfFile # NoPath THEN pdfFile ELSE existing.pdf_path

\* the image path of a request without image cleared, as Create sets it (line 107)
NewImagePathClears(existing, imageFile) == imageFile

\* lines 210, 222-228: the image path the row gets
NewImagePath(existing, imageFile) == IF imageFile # NoPath THEN imageFile ELSE existing.image_path

\* lines 213-228: the old files a replacement removes
Replaced(existing, pdfFile, imageFile) ==
  (IF pdfFile # NoPath THEN {existing.pdf_path} ELSE {})
    \cup (IF imageFile # NoPath THEN {existing.image_path} ELSE {})

\* lines 200-237: the lookup and its callback.  In a request that is not multipart
\* req.files is undefined and req.files['pdf'] throws inside the database callback:
\* nothing catches it and the process dies.
UpdateLookup(c) ==
  LET r == conn[c] IN
  /\ up /\ r.pc = "lookup"
  /\ \E dbErr \in BOOLEAN :
       /\ failed' = dbErr
       /\ IF LookupFails(dbErr, r.id)
          THEN /\ Respond(c, NotFoundReply("update", r.id))
               /\ UNCHANGED <<files, up>>
          ELSE IF ~r.multipart
          THEN /\ up' = FALSE
               /\ Continue(c, [r EXCEPT !.pc = "crashed"])
               /\ UNCHANGED files
          ELSE /\ files' = Unlink(files, Replaced(rows[r.id], r.pdfFile, r.imageFile))
               /\ Continue(c, [r EXCEPT !.pc = "write", !.existing = rows[r.id]])
               /\ UNCHANGED up
  /\ UNCHANGED <<rows, lastSeq, now, started, created, deleted>>

\* UPDATE materials SET ... WHERE id = ?: no row is written when none has the id
UpdateRow(t, id, v) == IF id \in DOMAIN t THEN Put(t, id, v) ELSE t

\* lines 237-257: the UPDATE and its callback
UpdateWrite(c) ==
  LET r == conn[c] IN
  /\ up /\ r.pc = "write"
  /\ \E dbErr \in BOOLEAN :
       /\ failed' = dbErr
       /\ IF dbErr
          THEN /\ Respond(c, [ErrorReply("update", 500, "Database") EXCEPT !.id = r.id])
               /\ UNCHANGED rows
          ELSE /\ rows' = UpdateRow(rows, r.id,
                            Row(r.name, r.desc, r.category, NewPdfPath(r.existing, r.pdfFile),
                                NewImagePath(r.existing, r.imageFile)))
               /\ Respond(c, MaterialReply("update", 200, r.id, r.name, r.desc, r.category,
                                           NewPdfPath(r.existing, r.pdfFile),
                                           NewImagePath(r.existing, r.imageFile)))
  /\ UNCHANGED <<lastSeq, files, now, up, started, created, deleted>>

\* --------------------------------------------------------------- behaviours
Next ==
  \/ \E c \in Conns : CreateUpload(c)
  \/ \E c \in Conns : CreateCheck(c)
  \/ \E c \in Conns : CreateInsert(c)
  \/ \E c \in Conns : List(c)
  \/ \E c \in Conns : DeleteLookup(c)
  \/ \E c \in Conns : DeleteRow(c)
  \/ \E c \in Conns : UpdateUpload(c)
  \/ \E c \in Conns : UpdateLookup(c)
  \/ \E c \in Conns : UpdateWrite(c)

Spec == Init /\ [][Next]_vars

\* no request is in flight
Quiet == \A c \in Conns : conn[c].pc = "idle"

\* the clients send a request only after the response to the one before it
SerialNext ==
  \/ \E c \in Conns : Quiet /\ CreateUpload(c)
  \/ \E c \in Conns : CreateCheck(c)
  \/ \E c \in Conns : CreateInsert(c)
  \/ \E c \in Conns : Quiet /\ List(c)
  \/ \E c \in Conns : Quiet /\ DeleteLookup(c)
  \/ \E c \in Conns : DeleteRow(c)
  \/ \E c \in Conns : Quiet /\ UpdateUpload(c)
  \/ \E c \in Conns : UpdateLookup(c)
  \/ \E c \in Conns : UpdateWrite(c)

Serial == Init /\ [][SerialNext]_vars

\* ------------------------------------------------------------------ claims
\* two stored paths come from uploads of the same file to the same field: the same
\* partition and the same sanitized original name (NoPath only matches NoPath)
SameUpload(p, q) == p.dir = q.dir /\ p.name = q.name

\* row holds what request r submits: the same fields and the same attachments
Twin(row, r) ==
  /\ row.name = r.name /\ row.desc = r.desc /\ row.category = r.category
  /\ SameUpload(row.pdf_path, r.pdfFile)
  /\ SameUpload(row.image_path, r.imageFile)

\* C1: a Create that repeats a stored material (same name, desc, category, document
\* and image) is answered 409 by its duplicate check and the table keeps its rows.
C1_RepeatedCreateConflicts ==
  [][\A c \in Conns :
       (CreateCheck(c) /\ ~failed' /\ \E i \in DOMAIN rows : Twin(rows[i], conn[c]))
         => (reply'.status = 409 /\ rows' = rows)]_vars

\* C2: a Create refused by validation (a field missing or empty, or no document)
\* leaves the table and the attachment store as they were.
C2_RefusedCreateHasNoEffect ==
  [][(reply'.op = "create" /\ reply'.error \in {"Name", "PDF"})
       => (rows' = rows /\ files' = files)]_vars

\* C3: a Create without a document part is answered 400 and inserts no row; no
\* Create without a document gets past the callback of its upload.
C3_CreateWithoutDocumentIs400 ==
  [][/\ (refused'.op = "create" /\ ~refused'.pdf)
          => (reply'.status = 400 /\ rows' = rows)
     /\ \A c \in Conns : conn'[c].op = "create" => conn'[c].pdfFile # NoPath]_vars

\* the attachment files row names
RowFiles(row) == {row.pdf_path, row.image_path} \ {NoPath}

C5_DeleteOfMissingIdIsNotFound ==
  [][\A c \in Conns :
       (DeleteLookup(c) /\ reply'.op = "delete" /\ reply'.id \notin DOMAIN rows)
         => (reply'.status = 404 /\ rows' = rows /\ files' = files /\ lastSeq' = lastSeq)]_vars

C5_Witness ==
  /\ reply.op = "delete" /\ reply.status = 404 /\ ~failed
  /\ reply.id \notin DOMAIN rows
  /\ rows # << >> /\ files # {}

\* C8: no two successful Creates returned the same id, whatever was deleted in between.
C8_CreatedIdsAreUnique ==
  \A i, j \in 1 .. Len(created) : i # j => created[i] # created[j]

C8_Witness ==
  /\ Len(created) >= 2
  /\ created[1] \in deleted
  /\ reply.op = "create" /\ reply.status = 201

\* C9: whenever the database call of a step fails, the response of that step is a 500.
C9_DatabaseFailureIs500 == failed => reply.status = 500

\* C10: every stored row has a non-empty name, description and category and names a
\* document.
C10_RowsAreComplete ==
  \A i \in DOMAIN rows :
    /\ Truthy(rows[i].name) /\ Truthy(rows[i].desc) /\ Truthy(rows[i].category)
    /\ rows[i].pdf_path # NoPath

C10_Witness ==
  /\ reply.op = "update" /\ reply.status = 200
  /\ reply.id \in DOMAIN rows
  /\ Cardinality(DOMAIN rows) >= 2

\* C11: a row written by Create or by Update names, as its image, no path or a path
\* that exists in the attachment store when the row is written.
C11_ImageExistsAtWrite ==
  [][\A c \in Conns :
       /\ (CreateInsert(c) /\ ~failed')
            => (conn[c].imageFile = NoPath \/ conn[c].imageFile \in files)
       /\ (UpdateWrite(c) /\ ~failed' /\ conn[c].id \in DOMAIN rows)
            => (rows'[conn[c].id].image_path = NoPath
                  \/ rows'[conn[c].id].image_path \in files)]_vars

\* C12: the step that refuses a Create or an Update for its fields (or a Create for
\* its missing document) has written none of the request's files to the store.
C12_NoFileStoredBeforeValidation ==
  [][(reply'.op \in {"create", "update"} /\ reply'.error \in {"Name", "PDF"})
       => files' \subseteq files]_vars

\* row has the name, description, category and document path of request r
SameButImage(row, r) ==
  /\ row.name = r.name /\ row.desc = r.desc /\ row.category = r.category
  /\ row.pdf_path = r.pdfFile

\* C13 as stated: the duplicate check of a Create without image answers 409 for a stored
\* row with its name, description, category and document path, whatever the row's image.
C13_NullImageMatchesAnyStoredImage ==
  [][\A c \in Conns :
       (CreateCheck(c) /\ ~failed' /\ conn[c].imageFile = NoPath
          /\ \E i \in DOMAIN rows : SameButImage(rows[i], conn[c]))
         => reply'.status = 409]_vars

\* C13: the duplicate check of a Create without image answers 409 exactly when such a
\* row is stored with a null image_path; the check of a Create with an image answers
\* 409 exactly when such a row is stored with a null image_path or with that image.
C13_NullImageMatchesOnlyNull ==
  [][\A c \in Conns :
       (CreateCheck(c) /\ ~failed')
         => (reply'.status = 409
               <=> \E i \in DOMAIN rows :
                     /\ SameButImage(rows[i], conn[c])
                     /\ rows[i].image_path \in {NoPath, conn[c].imageFile})]_vars

\* a Create was answered 409 when no image was ever stored: neither the request nor
\* the row it repeats has one
C13_Witness ==
  /\ reply.op = "create" /\ reply.status = 409
  /\ rows # << >>
  /\ \A i \in DOMAIN rows : rows[i].image_path = NoPath
  /\ \A f \in files : f.dir = "pdfs"

\* requests r and q submit the same fields and the same attachments
TwinRequests(r, q) ==
  /\ r.name = q.name /\ r.desc = q.desc /\ r.category = q.category
  /\ SameUpload(r.pdfFile, q.pdfFile)
  /\ SameUpload(r.imageFile, q.imageFile)

\* C14: the INSERT of a Create that passed its duplicate check is not stopped by a twin:
\* when another Create with the same content has also passed its check, or has already
\* inserted its row, the INSERT still adds a row of its own and is answered 201, and the
\* other Create goes on undisturbed.
C14_RacingCreatesBothInsert ==
  [][\A c \in Conns :
       (/\ CreateInsert(c) /\ ~failed'
        /\ \/ \E i \in DOMAIN rows : Twin(rows[i], conn[c])
           \/ \E d \in Conns \ {c} : conn[d].pc = "insert" /\ TwinRequests(conn[d], conn[c]))
         => /\ reply'.status = 201
            /\ Cardinality(DOMAIN rows') = Cardinality(DOMAIN rows) + 1
            /\ reply'.id \in DOMAIN rows' \ DOMAIN rows
            /\ Twin(rows'[reply'.id], conn[c])
            /\ \A d \in Conns \ {c} : conn'[d] = conn[d]]_vars

\* two Creates were the only requests, both were answered 201 and their rows are equal
\* in every column: had either check run after the other's INSERT it had found the row
C14_Witness ==
  /\ started = 2 /\ Len(created) = 2
  /\ reply.op = "create" /\ reply.status = 201
  /\ created[1] \in DOMAIN rows /\ created[2] \in DOMAIN rows
  /\ rows[created[1]] = rows[created[2]]

\* the callback that is pending for the request of connection c
Pending(c) ==
  CreateCheck(c) \/ CreateInsert(c) \/ DeleteRow(c) \/ UpdateLookup(c) \/ UpdateWrite(c)

\* C15: a request in flight always has its next callback pending, so that it goes on
\* until it is answered; and a step that answers with an error writes no row and
\* ends its request, so that no step of the request follows the failure.
C15_LinearPipelineWithOneResponse ==
  /\ [](\A c \in Conns : conn[c].pc # "idle" => ENABLED Pending(c))
  /\ [][reply'.status >= 400
          => (rows' = rows /\ \A c \in Conns : conn'[c] \in {conn[c], Idle})]_vars

\* C16: the lookup of a Delete that finds its row, with a file of the row missing from
\* the store, sends no error and goes on to delete the row; and the row deletion,
\* unless the database fails, removes the row and answers 200.
C16_DeleteSucceedsWithoutFiles ==
  [][\A c \in Conns :
       /\ \A id \in DOMAIN rows :
            (/\ DeleteLookup(c) /\ ~failed'
             /\ (conn'[c].id = id \/ reply'.id = id)
             /\ ~(RowFiles(rows[id]) \subseteq files))
              => (reply' = NoReply /\ conn'[c].pc = "delete" /\ conn'[c].id = id)
       /\ (DeleteRow(c) /\ ~failed')
            => (reply'.status = 200 /\ conn[c].id \notin DOMAIN rows')]_vars

\* two Deletes of one row both got past their lookup, so that the later lookup found
\* the files already removed; one of them has been answered 200 and the other is
\* about to delete the row
C16_Witness ==
  /\ reply.op = "delete" /\ reply.status = 200
  /\ \E c \in Conns :
       /\ conn[c].pc = "delete" /\ conn[c].id = reply.id
       /\ RowFiles(conn[c].existing) # {}
       /\ RowFiles(conn[c].existing) \cap files = {}

\* C17: an Update whose row write is answered 200 wrote a row: the id it names is
\* in the table when the UPDATE statement runs.
C17_UpdateSuccessNeedsRow ==
  [][\A c \in Conns :
       (UpdateWrite(c) /\ reply'.status = 200) => conn[c].id \in DOMAIN rows]_vars

\* the files request r has stored
RequestFiles(r) == {r.pdfFile, r.imageFile} \ {NoPath}

\* C18 as stated: no two rows have the same pdf_path or the same non-null image_path.
C18_NoSharedPaths ==
  \A i, j \in DOMAIN rows :
    i # j => /\ rows[i].pdf_path # rows[j].pdf_path
             /\ rows[i].image_path # NoPath => rows[i].image_path # rows[j].image_path

\* C18: a request whose upload gives it the path of a file already in the store, of a
\* row or of another request in flight is uploaded in the millisecond of the upload
\* before it: an upload in a millisecond of its own gets paths nothing else has.
C18_SharedPathsNeedSameMillisecond ==
  [][\A c \in Conns :
       (conn[c].pc = "idle" /\ conn'[c].pc # "idle")
         => \A p \in RequestFiles(conn'[c]) :
              (\/ p \in files
               \/ \E i \in DOMAIN rows : p \in RowFiles(rows[i])
               \/ \E d \in Conns \ {c} : p \in RequestFiles(conn[d]))
                => now' = now]_vars

\* two rows name one document file, and a Delete of one of them has removed it
C18_Witness ==
  /\ reply.op = "delete" /\ reply.status = 200
  /\ \E i \in DOMAIN rows :
       /\ rows[i].pdf_path \notin files
       /\ rows[i].pdf_path.ts = now
       /\ Len(created) = 2 /\ started = 3

\* the rows other than row id are in table u as they are in table t
OthersKept(t, u, id) == \A i \in DOMAIN t \ {id} : i \in DOMAIN u /\ u[i] = t[i]

\* C19 as stated: the row write of an Update and the row deletion of a Delete keep every
\* other row and every id; the Update keeps the number of rows and a Delete answered
\* 200 has removed exactly one row.
C19_OneRowLessAfterDelete ==
  [][\A c \in Conns :
       /\ UpdateWrite(c)
            => (DOMAIN rows' = DOMAIN rows /\ OthersKept(rows, rows', conn[c].id))
       /\ DeleteRow(c)
            => (DOMAIN rows' \subseteq DOMAIN rows /\ OthersKept(rows, rows', conn[c].id))
       /\ (DeleteRow(c) /\ reply'.status = 200)
            => Cardinality(DOMAIN rows') = Cardinality(DOMAIN rows) - 1]_vars

\* C19: the same, but a Delete answered 200 has removed the row of its id when that
\* row was still in the table, and has removed no row when it was not; the steps of
\* Update and Delete before their row write change no row.
C19_OnlyTheRowOfTheId ==
  [][\A c \in Conns :
       /\ UpdateWrite(c)
            => (DOMAIN rows' = DOMAIN rows /\ OthersKept(rows, rows', conn[c].id))
       /\ DeleteRow(c)
            => (DOMAIN rows' \subseteq DOMAIN rows /\ OthersKept(rows, rows', conn[c].id))
       /\ (DeleteRow(c) /\ reply'.status = 200)
            => DOMAIN rows' = DOMAIN rows \ {conn[c].id}
       /\ (conn[c].pc \in {"idle", "lookup"} /\ conn'[c] # conn[c] /\ conn'[c].op # "create")
            => rows' = rows]_vars

\* a Delete answered 200 has removed its row from a table that holds another row
C19_Witness ==
  /\ reply.op = "delete" /\ reply.status = 200
  /\ reply.id \notin DOMAIN rows
  /\ \E i \in DOMAIN rows : i < reply.id

====
